---- MODULE Spec2Model ----
(***************************************************************************)
(* State-machine model of the CycleGAN training controller                 *)
(* (src/cycle_gan.py): construction from a checkpoint prefix, set_input,   *)
(* forward, test, backward_g, backward_d, train (one statement per step),  *)
(* save_progress and set_requires_grad.                                    *)
(*                                                                         *)
(* The four networks are opaque differentiable modules: a call maps a      *)
(* tensor to a tensor and records, in the result, the tracked parameters   *)
(* the result depends on (its autograd graph).  A weight is the number of  *)
(* optimizer updates it has received; a gradient is the number of backward *)
(* passes accumulated into it since the last zero_grad.                    *)
(***************************************************************************)
EXTENDS Integers, Sequences, FiniteSets, TLC

\* ---- bounds of the model
NParams == 2     \* parameters per network
MaxVal == 1      \* tensor values are 0..MaxVal
MaxW == 1        \* a weight is updated at most MaxW times
MaxGrad == 1     \* accumulations into one parameter by direct backward calls
MaxNets == 2     \* length of the list handed to set_requires_grad

\* ---- program constants
lambda_A == 10
lambda_B == 10

Gens == {"GenA", "GenB"}
Diss == {"DisA", "DisB"}
Models == Gens \cup Diss
Params == 1..NParams

WeightFiles == {"generator_a.pth", "generator_b.pth",
                "discriminator_a.pth", "discriminator_b.pth"}
Marker == "epoch.txt"
Image == "sample.png"
FileNames == WeightFiles \cup {Marker, Image}

VARIABLES
  ctl,            \* "none" | "train" | "infer": the controller object (is_train)
  built,          \* the networks the constructor built
  weights,        \* [Models -> [Params -> Nat]]
  requires_grad,  \* [Models -> [Params -> BOOLEAN]]
  grad,           \* [Models -> [Params -> Nat]]: accumulated gradient
  real_A, real_B, fake_A, fake_B, new_A, new_B,
  graphLive,      \* the graph built by the last forward() is still retained
  loss,           \* the seven loss attributes
  fileState,      \* [FileNames -> {"absent", "ok", "corrupt"}]
  fileData,       \* [WeightFiles -> [Params -> Nat]]: the state dict held by
                  \* an "ok" file (zeros otherwise)
  pc,             \* 0: no call in progress; i: train() is at TrainOrder[i]
  trace,          \* the steps the current/last train() has performed
  last,           \* the operation that produced this state
  err,            \* its outcome: "ok" or the error raised
  argNets,        \* the list handed to the last set_requires_grad call
  argFlag,        \* its flag; after __init__, the train argument
  argD,           \* the discriminator handed to the last backward_d call
  inputEverSet,   \* a set_input call has completed on this controller
  disAtStart,     \* discriminator weights when the current train() began
  rgAtStart,      \* discriminator tracking flags when it began
  scoredDis       \* discriminator weights backward_g scored with

vars == <<ctl, built, weights, requires_grad, grad, real_A, real_B, fake_A, fake_B,
          new_A, new_B, graphLive, loss, fileState, fileData, pc, trace,
          last, err, argNets, argFlag, argD, inputEverSet, disAtStart,
          rgAtStart, scoredDis>>

\* ---- tensors
Tensor(v, d) == [val |-> v, deps |-> d]
None == Tensor(-1, {})
IsNone(t) == t.val = -1
Batches == {Tensor(v, {}) : v \in 0..MaxVal}

InitialInputZero == Tensor(0, {})
\* self.real_A = self.real_B = self.fake_A = ... = None
InitialInput == None

RECURSIVE WeightedSum(_, _)
WeightedSum(f, n) == IF n = 0 THEN 0 ELSE n * f[n] + WeightedSum(f, n - 1)

Abs(x) == IF x < 0 THEN -x ELSE x

\* ---- the networks: opaque tensor-to-tensor calls
\* A network call on an undefined input raises.
NetRejects(x) == IsNone(x)

\* The parameters of m the autograd graph records when m is applied.
Leaves(m) == {<<m, p>> : p \in {q \in Params : requires_grad[m][q]}}

\* m(x): the value depends on the input and on m's weights; with gradient
\* tracking on, the result's graph is the input's plus m's tracked parameters.
Bias(m) == IF m \in {"GenA", "DisB"} THEN 1 ELSE 0
Apply(m, x, tracking) ==
  Tensor((x.val + WeightedSum(weights[m], NParams) + Bias(m)) % (MaxVal + 1),
         IF tracking THEN x.deps \cup Leaves(m) ELSE {})

DetachIdentity(t) == t
\* fake.detach()
Detach(t) == Tensor(t.val, {})

\* ---- loss functions
\* nn.BCELoss against a constant label (kept even so that * 0.5 is exact)
criterionGAN(pred, label) ==
  2 * (IF label THEN MaxVal - pred.val ELSE pred.val)
\* nn.L1Loss
criterionCycle(a, b) == Abs(a.val - b.val)

NoLoss == [disA |-> 0, disB |-> 0, cycle_A |-> 0, cycle_B |-> 0,
           genA |-> 0, genB |-> 0, G |-> 0]

CombinedLossWithIdt(gA, gB, cA, cB) == gA + gB + cA + cB + criterionCycle(fake_B, real_B)
\* self.loss_G
CombinedLoss(gA, gB, cA, cB) == gA + gB + cA + cB

\* self.loss_cycle_X
CycleLoss(rebuilt, real, lambda) == criterionCycle(rebuilt, real) * lambda

\* ---- autograd
\* loss.backward(): accumulate into every parameter the loss depends on
Accumulate(g, deps) ==
  [m \in Models |-> [p \in Params |->
     IF <<m, p>> \in deps THEN g[m][p] + 1 ELSE g[m][p]]]

\* backward() raises when the loss depends on no tracked parameter, and when it
\* must go through a generator graph that an earlier backward() has freed.
BackwardError(deps) ==
  \/ deps = {}
  \/ /\ \E l \in deps : l[1] \in Gens
     /\ ~graphLive

\* ---- optimizers
OptimizerG == Gens
OptimizerD == Diss

ZeroGrad(group) ==
  [m \in Models |-> IF m \in group THEN [p \in Params |-> 0] ELSE grad[m]]

StepEveryModel(group) ==
  [m \in Models |-> [p \in Params |->
     IF grad[m][p] > 0 THEN weights[m][p] + 1 ELSE weights[m][p]]]
\* optimizer.step(): update the parameters of the group that hold a gradient
StepWeights(group) ==
  [m \in Models |-> [p \in Params |->
     IF m \in group /\ grad[m][p] > 0 THEN weights[m][p] + 1
     ELSE weights[m][p]]]

\* ---- set_requires_grad
RECURSIVE SetRequiresGradNoSkip(_, _, _, _)
SetRequiresGradNoSkip(rg, nets, flag, i) ==
  IF i > Len(nets) THEN [rg |-> rg, err |-> "ok"]
  ELSE IF nets[i] = "None" THEN [rg |-> rg, err |-> "AttributeError"]
  ELSE SetRequiresGradNoSkip([rg EXCEPT ![nets[i]] = [p \in Params |-> flag]],
                             nets, flag, i + 1)

RECURSIVE SetRequiresGradFrom(_, _, _, _)
SetRequiresGradFrom(rg, nets, flag, i) ==
  IF i > Len(nets) THEN [rg |-> rg, err |-> "ok"]
  ELSE SetRequiresGradFrom(
         IF nets[i] # "None"
         THEN [rg EXCEPT ![nets[i]] = [p \in Params |-> flag]]
         ELSE rg,
         nets, flag, i + 1)

\* ---- checkpoint files
FileOf(m) == CASE m = "GenA" -> "generator_a.pth"
               [] m = "GenB" -> "generator_b.pth"
               [] m = "DisA" -> "discriminator_a.pth"
               [] m = "DisB" -> "discriminator_b.pth"

\* EpochTracker.file_exists
MarkerExists == fileState[Marker] # "absent"

BuiltAlways(train) == Models
\* the networks __init__ builds
Built(train) == IF train THEN Models ELSE Gens

LoadOrderNoDisA(train) ==
  IF train THEN <<"GenA", "GenB", "DisB">> ELSE <<"GenA", "GenB">>
\* the weight files __init__ loads when the marker exists, in order
LoadOrder(train) ==
  IF train THEN <<"GenA", "GenB", "DisA", "DisB">> ELSE <<"GenA", "GenB">>

\* torch.load + load_state_dict raise on a missing or malformed file
LoadFails(m) == fileState[FileOf(m)] # "ok"

FreshWeights == [m \in Models |-> [p \in Params |-> 0]]
AllTracked == [m \in Models |-> [p \in Params |-> TRUE]]
NoGrad == [m \in Models |-> [p \in Params |-> 0]]
NoSnap == [d \in Diss |-> [p \in Params |-> -1]]
Snap == [d \in Diss |-> weights[d]]

\* ---- frames
NoArgs == argNets' = <<>> /\ argFlag' = FALSE /\ argD' = "None"
NoTrain ==
  /\ pc' = 0 /\ trace' = <<>>
  /\ disAtStart' = NoSnap /\ rgAtStart' = NoSnap /\ scoredDis' = NoSnap
Outcome(op, e) == last' = op /\ err' = e
Idle == pc = 0 /\ ctl # "none"

\* a process that has not constructed the controller yet
NoObject ==
  /\ ctl = "none" /\ built = {}
  /\ weights = FreshWeights /\ requires_grad = AllTracked /\ grad = NoGrad
  /\ real_A = InitialInput /\ real_B = InitialInput
  /\ fake_A = InitialInput /\ fake_B = InitialInput
  /\ new_A = InitialInput /\ new_B = InitialInput
  /\ graphLive = FALSE /\ loss = NoLoss
  /\ pc = 0 /\ trace = <<>> /\ last = "start" /\ err = "ok"
  /\ argNets = <<>> /\ argFlag = FALSE /\ argD = "None"
  /\ inputEverSet = FALSE
  /\ disAtStart = NoSnap /\ rgAtStart = NoSnap /\ scoredDis = NoSnap

\* a prefix with no checkpoint files
Init ==
  /\ NoObject
  /\ fileState = [f \in FileNames |-> "absent"]
  /\ fileData = [f \in WeightFiles |-> [p \in Params |-> 0]]

\* a prefix left in any state by earlier runs or by the user
InitAnyDisk ==
  /\ NoObject
  /\ fileState \in [FileNames -> {"absent", "ok", "corrupt"}]
  /\ fileData = [f \in WeightFiles |-> [p \in Params |-> 0]]

\* ---- CycleGAN.__init__, in a fresh process: the previous object is gone
Construct(train) ==
  /\ pc = 0
  /\ LET order == LoadOrder(train)
         fails == MarkerExists /\ \E i \in 1..Len(order) : LoadFails(order[i])
     IN /\ ctl' = IF fails THEN "none" ELSE IF train THEN "train" ELSE "infer"
        /\ built' = IF fails THEN {} ELSE Built(train)
        /\ weights' =
             IF fails \/ ~MarkerExists THEN FreshWeights
             ELSE [m \in Models |->
                    IF \E i \in 1..Len(order) : order[i] = m
                    THEN fileData[FileOf(m)] ELSE FreshWeights[m]]
        /\ Outcome("__init__", IF fails THEN "CheckpointLoadError" ELSE "ok")
  /\ requires_grad' = AllTracked /\ grad' = NoGrad
  /\ real_A' = InitialInput /\ real_B' = InitialInput
  /\ fake_A' = InitialInput /\ fake_B' = InitialInput
  /\ new_A' = InitialInput /\ new_B' = InitialInput
  /\ graphLive' = FALSE /\ loss' = NoLoss /\ inputEverSet' = FALSE
  /\ argNets' = <<>> /\ argFlag' = train /\ argD' = "None"
  /\ NoTrain
  /\ UNCHANGED <<fileState, fileData>>

\* ---- set_input(real_A, real_B); .to(device) on a null batch raises
SetInput(a, b) ==
  /\ Idle
  /\ real_A' = IF IsNone(a) THEN real_A ELSE a
  /\ real_B' = IF IsNone(a) \/ IsNone(b) THEN real_B ELSE b
  /\ inputEverSet' = (inputEverSet \/ (~IsNone(a) /\ ~IsNone(b)))
  /\ Outcome("set_input",
             IF IsNone(a) \/ IsNone(b) THEN "AttributeError" ELSE "ok")
  /\ NoArgs /\ NoTrain
  /\ UNCHANGED <<ctl, built, weights, requires_grad, grad, fake_A, fake_B,
                 new_A, new_B, graphLive, loss, fileState, fileData>>

\* ---- forward(): the four network calls in order, stopping at the first
\* that raises
ForwardResult(tracking) ==
  IF NetRejects(real_A)
  THEN [err |-> "UninitializedInputError", fB |-> fake_B, nA |-> new_A,
        fA |-> fake_A, nB |-> new_B, live |-> graphLive]
  ELSE LET fb == Apply("GenA", real_A, tracking)
           na == Apply("GenB", fb, tracking)
       IN IF NetRejects(real_B)
          THEN [err |-> "UninitializedInputError", fB |-> fb, nA |-> na,
                fA |-> fake_A, nB |-> new_B, live |-> tracking]
          ELSE LET fa == Apply("GenB", real_B, tracking)
                   nb == Apply("GenA", fa, tracking)
               IN [err |-> "ok", fB |-> fb, nA |-> na, fA |-> fa, nB |-> nb,
                   live |-> tracking]

DoForward(op, tracking) ==
  LET r == ForwardResult(tracking)
  IN /\ fake_B' = r.fB /\ new_A' = r.nA /\ fake_A' = r.fA /\ new_B' = r.nB
     /\ graphLive' = r.live
     /\ Outcome(op, r.err)

Forward ==
  /\ Idle
  /\ DoForward("forward", TRUE)
  /\ NoArgs /\ NoTrain
  /\ UNCHANGED <<ctl, built, weights, requires_grad, grad, real_A, real_B,
                 loss, fileState, fileData, inputEverSet>>

\* ---- test(): forward() under torch.no_grad()
Test ==
  /\ Idle
  /\ DoForward("test", FALSE)
  /\ NoArgs /\ NoTrain
  /\ UNCHANGED <<ctl, built, weights, requires_grad, grad, real_A, real_B,
                 loss, fileState, fileData, inputEverSet>>

NetError == "UninitializedInputError"

\* ---- backward_g()
\* The loss attributes are assigned one by one, so a call that raises midway
\* leaves the earlier ones assigned.  deviceFails: loss_G.backward() raises in
\* the tensor substrate.
DoBackwardG(deviceFails) ==
  IF ctl # "train" \/ "DisA" \notin built
  THEN /\ Outcome("backward_g", "AttributeError")
       /\ UNCHANGED <<loss, grad, graphLive, scoredDis>>
  ELSE IF NetRejects(fake_B)
  THEN /\ Outcome("backward_g", NetError)
       /\ UNCHANGED <<loss, grad, graphLive, scoredDis>>
  ELSE
    LET pA == Apply("DisA", fake_B, TRUE)
        gA == criterionGAN(pA, TRUE)
    IN IF NetRejects(fake_A)
       THEN /\ loss' = [loss EXCEPT !.genA = gA]
            /\ Outcome("backward_g", NetError)
            /\ UNCHANGED <<grad, graphLive, scoredDis>>
       ELSE
         LET pB == Apply("DisB", fake_A, TRUE)
             gB == criterionGAN(pB, TRUE)
             cA == CycleLoss(new_A, real_A, lambda_A)
             cB == CycleLoss(new_B, real_B, lambda_B)
             deps == pA.deps \cup pB.deps \cup new_A.deps \cup new_B.deps
                       \cup real_A.deps \cup real_B.deps
             bad == deviceFails \/ BackwardError(deps)
         IN /\ loss' = [loss EXCEPT !.genA = gA, !.genB = gB, !.cycle_A = cA,
                                    !.cycle_B = cB,
                                    !.G = CombinedLoss(gA, gB, cA, cB)]
            /\ scoredDis' = Snap
            /\ grad' = IF bad THEN grad ELSE Accumulate(grad, deps)
            /\ graphLive' = IF bad THEN graphLive ELSE FALSE
            /\ Outcome("backward_g", IF bad THEN "RuntimeError" ELSE "ok")

BackwardG ==
  /\ Idle
  /\ \A m \in Models : \A p \in Params : grad[m][p] < MaxGrad
  /\ \E deviceFails \in BOOLEAN : DoBackwardG(deviceFails)
  /\ NoArgs /\ pc' = 0 /\ trace' = <<>>
  /\ disAtStart' = NoSnap /\ rgAtStart' = NoSnap
  /\ UNCHANGED <<ctl, built, weights, requires_grad, real_A, real_B, fake_A,
                 fake_B, new_A, new_B, fileState, fileData, inputEverSet>>

\* ---- backward_d(netD, real, fake); r is the loss returned, or -1
BackwardDResult(netD, real, fake) ==
  IF NetRejects(real)
  THEN [err |-> NetError, grad |-> grad, live |-> graphLive, r |-> -1]
  ELSE IF ctl # "train"
  THEN [err |-> "AttributeError", grad |-> grad, live |-> graphLive, r |-> -1]
  ELSE IF IsNone(fake)
  THEN [err |-> "AttributeError", grad |-> grad, live |-> graphLive, r |-> -1]
  ELSE
    LET predict_real == Apply(netD, real, TRUE)
        loss_d_real == criterionGAN(predict_real, TRUE)
        predict_fake == Apply(netD, Detach(fake), TRUE)
        loss_d_fake == criterionGAN(predict_fake, FALSE)
        loss_d == (loss_d_real + loss_d_fake) \div 2
        deps == predict_real.deps \cup predict_fake.deps
    IN IF BackwardError(deps)
       THEN [err |-> "RuntimeError", grad |-> grad, live |-> graphLive,
             r |-> -1]
       ELSE [err |-> "ok", grad |-> Accumulate(grad, deps),
             live |-> graphLive /\ ~\E l \in deps : l[1] \in Gens,
             r |-> loss_d]

TensorNamed(n) == CASE n = "real_A" -> real_A [] n = "real_B" -> real_B
                    [] n = "fake_A" -> fake_A [] n = "fake_B" -> fake_B
                    [] n = "new_A" -> new_A [] n = "new_B" -> new_B

BackwardD(netD, real, fake) ==
  /\ Idle
  /\ netD \in built
  /\ \A p \in Params : grad[netD][p] < MaxGrad
  /\ LET r == BackwardDResult(netD, TensorNamed(real), TensorNamed(fake))
     IN /\ grad' = r.grad /\ graphLive' = r.live
        /\ Outcome("backward_d", r.err)
  /\ argD' = netD /\ argNets' = <<>> /\ argFlag' = FALSE
  /\ NoTrain
  /\ UNCHANGED <<ctl, built, weights, requires_grad, real_A, real_B, fake_A,
                 fake_B, new_A, new_B, loss, fileState, fileData,
                 inputEverSet>>

\* ---- set_requires_grad(nets, requires_grad), called directly
NetLists == UNION {[1..n -> built \cup {"None"}] : n \in 0..MaxNets}

SetRequiresGrad(nets, flag) ==
  /\ Idle
  /\ LET r == SetRequiresGradFrom(requires_grad, nets, flag, 1)
     IN /\ requires_grad' = r.rg
        /\ Outcome("set_requires_grad", r.err)
  /\ argNets' = nets /\ argFlag' = flag /\ argD' = "None"
  /\ NoTrain
  /\ UNCHANGED <<ctl, built, weights, grad, real_A, real_B, fake_A, fake_B,
                 new_A, new_B, graphLive, loss, fileState, fileData,
                 inputEverSet>>

\* ---- train(): one statement per step, in the order of the source
TrainOrderDFirst ==
  <<"forward", "unfreeze", "zero_d", "backward_dA", "backward_dB", "step_d",
    "freeze", "zero_g", "backward_g", "step_g">>
TrainOrder ==
  <<"forward", "freeze", "zero_g", "backward_g", "step_g",
    "unfreeze", "zero_d", "backward_dA", "backward_dB", "step_d">>

FreezeOnlyDisA == [nets |-> <<"DisA">>, flag |-> FALSE]
\* self.set_requires_grad([self.DisA, self.DisB], False)
FreezeArgs == [nets |-> <<"DisA", "DisB">>, flag |-> FALSE]
\* self.set_requires_grad([self.DisA, self.DisB], True)
UnfreezeArgs == [nets |-> <<"DisA", "DisB">>, flag |-> TRUE]

At(step) == pc > 0 /\ TrainOrder[pc] = step

\* the step either completes and train() moves on, or raises and train() ends
Moves(step, e) ==
  /\ pc' = IF e # "ok" \/ pc = Len(TrainOrder) THEN 0 ELSE pc + 1
  /\ trace' = IF e = "ok" THEN Append(trace, step) ELSE trace

TrainCall ==
  /\ Idle
  /\ \A m \in Models : \A p \in Params : weights[m][p] < MaxW
  /\ pc' = 1 /\ trace' = <<>> /\ scoredDis' = NoSnap
  /\ disAtStart' = Snap /\ rgAtStart' = [d \in Diss |-> requires_grad[d]]
  /\ Outcome("train", "ok")
  /\ NoArgs
  /\ UNCHANGED <<ctl, built, weights, requires_grad, grad, real_A, real_B,
                 fake_A, fake_B, new_A, new_B, graphLive, loss, fileState,
                 fileData, inputEverSet>>

TrainForward ==
  /\ At("forward")
  /\ DoForward("train.forward", TRUE)
  /\ Moves("forward", err')
  /\ NoArgs
  /\ UNCHANGED <<ctl, built, weights, requires_grad, grad, real_A, real_B,
                 loss, fileState, fileData, inputEverSet, disAtStart,
                 rgAtStart, scoredDis>>

TrainSetRequiresGrad(step, args) ==
  /\ At(step)
  /\ IF \E i \in 1..Len(args.nets) : args.nets[i] \notin built
     THEN /\ Outcome("set_requires_grad", "AttributeError")
          /\ UNCHANGED requires_grad
     ELSE LET r == SetRequiresGradFrom(requires_grad, args.nets, args.flag, 1)
          IN /\ requires_grad' = r.rg
             /\ Outcome("set_requires_grad", r.err)
  /\ Moves(step, err')
  /\ argNets' = args.nets /\ argFlag' = args.flag /\ argD' = "None"
  /\ UNCHANGED <<ctl, built, weights, grad, real_A, real_B, fake_A, fake_B,
                 new_A, new_B, graphLive, loss, fileState, fileData,
                 inputEverSet, disAtStart, rgAtStart, scoredDis>>

TrainFreeze == TrainSetRequiresGrad("freeze", FreezeArgs)

TrainUnfreeze == TrainSetRequiresGrad("unfreeze", UnfreezeArgs)

TrainZeroGrad(step, op, group) ==
  /\ At(step)
  /\ IF ctl # "train"
     THEN Outcome(op, "AttributeError") /\ UNCHANGED grad
     ELSE Outcome(op, "ok") /\ grad' = ZeroGrad(group)
  /\ Moves(step, err')
  /\ NoArgs
  /\ UNCHANGED <<ctl, built, weights, requires_grad, real_A, real_B, fake_A,
                 fake_B, new_A, new_B, graphLive, loss, fileState, fileData,
                 inputEverSet, disAtStart, rgAtStart, scoredDis>>

TrainZeroG == TrainZeroGrad("zero_g", "optimizer_g.zero_grad", OptimizerG)

TrainZeroD == TrainZeroGrad("zero_d", "optimizer_d.zero_grad", OptimizerD)

TrainBackwardG ==
  /\ At("backward_g")
  /\ \E deviceFails \in BOOLEAN : DoBackwardG(deviceFails)
  /\ Moves("backward_g", err')
  /\ NoArgs
  /\ UNCHANGED <<ctl, built, weights, requires_grad, real_A, real_B, fake_A,
                 fake_B, new_A, new_B, fileState, fileData, inputEverSet,
                 disAtStart, rgAtStart>>

TrainStep(step, op, group) ==
  /\ At(step)
  /\ IF ctl # "train"
     THEN Outcome(op, "AttributeError") /\ UNCHANGED weights
     ELSE Outcome(op, "ok") /\ weights' = StepWeights(group)
  /\ Moves(step, err')
  /\ NoArgs
  /\ UNCHANGED <<ctl, built, requires_grad, grad, real_A, real_B, fake_A,
                 fake_B, new_A, new_B, graphLive, loss, fileState, fileData,
                 inputEverSet, disAtStart, rgAtStart, scoredDis>>

TrainStepG == TrainStep("step_g", "optimizer_g.step", OptimizerG)

TrainStepD == TrainStep("step_d", "optimizer_d.step", OptimizerD)

\* self.loss_disX = self.backward_d(self.DisX, real, fake)
TrainBackwardD(step, netD, real, fake, field) ==
  /\ At(step)
  /\ IF netD \notin built
     THEN /\ Outcome("backward_d", "AttributeError")
          /\ UNCHANGED <<grad, graphLive, loss>>
     ELSE LET r == BackwardDResult(netD, real, fake)
          IN /\ grad' = r.grad /\ graphLive' = r.live
             /\ loss' = IF r.err = "ok" THEN [loss EXCEPT ![field] = r.r]
                        ELSE loss
             /\ Outcome("backward_d", r.err)
  /\ Moves(step, err')
  /\ argD' = netD /\ argNets' = <<>> /\ argFlag' = FALSE
  /\ UNCHANGED <<ctl, built, weights, requires_grad, real_A, real_B, fake_A,
                 fake_B, new_A, new_B, fileState, fileData, inputEverSet,
                 disAtStart, rgAtStart, scoredDis>>

TrainBackwardDA == TrainBackwardD("backward_dA", "DisA", real_B, fake_B, "disA")

TrainBackwardDB == TrainBackwardD("backward_dB", "DisB", real_A, fake_A, "disB")

\* ---- save_progress(path, epoch, iteration)
SaveOrderMarkerFirst ==
  <<Marker, Image, "generator_a.pth", "generator_b.pth",
    "discriminator_a.pth", "discriminator_b.pth">>
\* the files save_progress writes, in order
SaveOrder ==
  <<Image, "generator_a.pth", "generator_b.pth",
    "discriminator_a.pth", "discriminator_b.pth", Marker>>

NWrites == Len(SaveOrder)
ModelOf(f) == CHOOSE m \in Models : FileOf(m) = f
\* writing SaveOrder[i] reads an attribute the object does not have
NeedsMissing(i) == SaveOrder[i] \in WeightFiles /\ ModelOf(SaveOrder[i]) \notin built
Min(a, b) == IF a < b THEN a ELSE b
FirstMissing ==
  IF \E i \in 1..NWrites : NeedsMissing(i)
  THEN CHOOSE i \in 1..NWrites :
         NeedsMissing(i) /\ \A j \in 1..(i - 1) : ~NeedsMissing(j)
  ELSE NWrites + 1

\* failAt: the write that fails (0: none); partial: the failed write leaves a
\* truncated checkpoint file behind (a sample image is named by epoch and
\* iteration and never read back: only a completed one is recorded)
SaveProgress(failAt, partial) ==
  /\ Idle
  /\ IF IsNone(real_A) \/ IsNone(fake_A) \/ IsNone(real_B) \/ IsNone(fake_B)
     THEN /\ Outcome("save_progress", "AttributeError")
          /\ UNCHANGED <<fileState, fileData>>
     ELSE
       LET ioAt == IF failAt = 0 THEN NWrites + 1 ELSE failAt
           stop == Min(FirstMissing, ioAt)
           idx(f) == CHOOSE i \in 1..NWrites : SaveOrder[i] = f
       IN /\ fileState' = [f \in FileNames |->
               IF idx(f) < stop THEN "ok"
               ELSE IF idx(f) = stop /\ ioAt < FirstMissing /\ partial /\ f # Image
                    THEN "corrupt"
               ELSE fileState[f]]
          /\ fileData' = [f \in WeightFiles |->
               IF idx(f) < stop THEN weights[ModelOf(f)]
               ELSE IF fileState'[f] = "corrupt" THEN [p \in Params |-> 0]
               ELSE fileData[f]]
          /\ Outcome("save_progress",
                     IF stop > NWrites THEN "ok"
                     ELSE IF FirstMissing <= ioAt THEN "AttributeError"
                     ELSE "IOError")
  /\ NoArgs /\ NoTrain
  /\ UNCHANGED <<ctl, built, weights, requires_grad, grad, real_A, real_B,
                 fake_A, fake_B, new_A, new_B, graphLive, loss, inputEverSet>>

TrainSteps ==
  \/ TrainCall
  \/ TrainForward
  \/ TrainFreeze
  \/ TrainZeroG
  \/ TrainBackwardG
  \/ TrainStepG
  \/ TrainUnfreeze
  \/ TrainZeroD
  \/ TrainBackwardDA
  \/ TrainBackwardDB
  \/ TrainStepD

\* ---- the controller's operations, on a disk where no write fails
Next ==
  \/ \E train \in BOOLEAN : Construct(train)
  \/ \E a \in {Tensor(0, {}), None} : \E b \in {Tensor(0, {}), None} : SetInput(a, b)
  \/ Forward
  \/ Test
  \/ BackwardG
  \/ \E netD \in Diss : \E real \in {"real_A", "real_B"} :
       \E fake \in {"fake_A", "fake_B", "new_A"} : BackwardD(netD, real, fake)
  \/ \E m \in built \cap Diss : \E flag \in BOOLEAN : SetRequiresGrad(<<m>>, flag)
  \/ SaveProgress(0, FALSE)
  \/ TrainSteps

Spec == Init /\ [][Next]_vars

\* ---- set_requires_grad on every list of networks and null entries
NextSRG ==
  \/ \E train \in BOOLEAN : Construct(train)
  \/ \E nets \in NetLists : \E flag \in BOOLEAN : SetRequiresGrad(nets, flag)

SpecSRG == Init /\ [][NextSRG]_vars

\* ---- checkpointing on a disk where any write may fail
NextCkpt ==
  \/ \E train \in BOOLEAN : Construct(train)
  \/ SetInput(Tensor(0, {}), Tensor(0, {}))
  \/ Test
  \/ \E failAt \in 0..NWrites : \E partial \in BOOLEAN : SaveProgress(failAt, partial)
  \/ TrainSteps

SpecCkpt == Init /\ [][NextCkpt]_vars

\* ---- the losses, on every pair of input batches
NextLoss ==
  \/ Construct(TRUE)
  \/ \E a \in Batches : \E b \in Batches : SetInput(a, b)
  \/ BackwardG
  \/ TrainSteps

SpecLoss == Init /\ [][NextLoss]_vars

\* ---- construction at a prefix in any state
NextLoad == \E train \in BOOLEAN : Construct(train)

SpecLoad == InitAnyDisk /\ [][NextLoad]_vars

(***************************************************************************)
(* The claims                                                              *)
(***************************************************************************)

CanonicalOrder ==
  <<"forward", "freeze", "zero_g", "backward_g", "step_g",
    "unfreeze", "zero_d", "backward_dA", "backward_dB", "step_d">>

\* C1: every train() performs forward, freeze, generator zero_grad,
\* backward_g, generator step, unfreeze, discriminator zero_grad,
\* backward_d(DisA), backward_d(DisB), discriminator step in exactly this
\* order (what it has performed so far is always a prefix of that list, and a
\* train() that returns has performed all of it), and backward_g scores with
\* the discriminator weights train() started with.
C1_TrainOrder ==
  /\ Len(trace) <= Len(CanonicalOrder)
  /\ \A i \in 1..Len(trace) : trace[i] = CanonicalOrder[i]
  /\ (pc = 0 /\ last = "optimizer_d.step" /\ err = "ok") => trace = CanonicalOrder
  /\ (last \in {"optimizer_g.step", "optimizer_d.step"} /\ err = "ok")
       => scoredDis = disAtStart

\* a train() has returned after updating the discriminators it had scored with
C1_Witness ==
  /\ pc = 0 /\ last = "optimizer_d.step" /\ err = "ok"
  /\ trace = CanonicalOrder
  /\ scoredDis = disAtStart
  /\ weights["DisA"] # disAtStart["DisA"]
  /\ weights["GenA"] # FreshWeights["GenA"]

\* C2: inside train(), whatever the discriminators' tracking flags were when
\* it was called, every DisA and DisB parameter has tracking off when
\* backward_g runs and on when either backward_d runs.
C2_Tracking ==
  [][/\ (pc > 0 /\ last' = "backward_g")
          => \A d \in Diss : \A p \in Params : ~requires_grad[d][p]
     /\ (pc > 0 /\ last' = "backward_d")
          => \A d \in Diss : \A p \in Params : requires_grad[d][p]]_vars

\* train() was called with DisA frozen and DisB tracked, and has reached its
\* second backward_d
C2_Witness ==
  /\ last = "backward_d" /\ argD = "DisB" /\ err = "ok"
  /\ "backward_g" \in {trace[i] : i \in 1..Len(trace)}
  /\ \A p \in Params : ~rgAtStart["DisA"][p] /\ rgAtStart["DisB"][p]

\* C3: in any sequence of calls on a controller, generator parameters change
\* only in the generator-optimizer step and discriminator parameters only in
\* the discriminator-optimizer step.
C3_OnlyOptimizersMutate ==
  [][last' # "__init__" =>
       /\ \A g \in Gens : weights'[g] # weights[g] => last' = "optimizer_g.step"
       /\ \A d \in Diss : weights'[d] # weights[d] => last' = "optimizer_d.step"]_vars

\* the generator step has updated the generators while a discriminator holding
\* a gradient stays as it was
C3_Witness ==
  /\ last = "optimizer_g.step" /\ err = "ok"
  /\ weights["GenA"] # FreshWeights["GenA"]
  /\ weights["DisA"] = FreshWeights["DisA"]
  /\ \E p \in Params : grad["DisA"][p] > 0

\* C4: a backward_d call leaves every generator gradient unchanged and
\* accumulates only into tracked parameters of the discriminator passed in.
C4_Detached ==
  [][last' = "backward_d" =>
       /\ \A g \in Gens : grad'[g] = grad[g]
       /\ \A m \in Models : \A p \in Params :
            grad'[m][p] # grad[m][p] => (m = argD' /\ requires_grad[m][p])]_vars

\* a direct backward_d on a fake that carries generator history has
\* accumulated into its discriminator and into no generator
C4_Witness ==
  /\ last = "backward_d" /\ err = "ok" /\ pc = 0
  /\ fake_B.deps # {} /\ fake_A.deps # {}
  /\ \A p \in Params : grad[argD][p] > 0
  /\ \A g \in Gens : \A p \in Params : grad[g][p] = 0

InList(m, nets) == \E i \in 1..Len(nets) : nets[i] = m

\* C5: set_requires_grad(nets, flag) does not raise on null entries, sets
\* every parameter of every listed network to flag and leaves the others'.
C5_SetRequiresGrad ==
  [][last' = "set_requires_grad" =>
       /\ err' = "ok"
       /\ \A m \in Models :
            IF InList(m, argNets')
            THEN \A p \in Params : requires_grad'[m][p] = argFlag'
            ELSE requires_grad'[m] = requires_grad[m]]_vars

\* a list with a null entry has frozen DisA and left a tracked DisB tracked
C5_Witness ==
  /\ last = "set_requires_grad" /\ err = "ok"
  /\ argNets = <<"None", "DisA">> /\ argFlag = FALSE
  /\ \A p \in Params : ~requires_grad["DisA"][p] /\ requires_grad["DisB"][p]

C7_CheckpointLoad ==
  (/\ last = "__init__" /\ argFlag /\ MarkerExists
   /\ fileState["discriminator_a.pth"] = "absent")
    => (err = "CheckpointLoadError" /\ ctl = "none" /\ built = {} /\ pc = 0)

\* the construction has failed on the discriminator file alone
C7_Witness ==
  /\ last = "__init__" /\ argFlag /\ fileState[Marker] = "ok"
  /\ fileState["discriminator_a.pth"] = "absent"
  /\ \A f \in WeightFiles \ {"discriminator_a.pth"} : fileState[f] = "ok"
  /\ err = "CheckpointLoadError" /\ ctl = "none"

\* C8: constructing with train=False and no marker succeeds, builds no
\* discriminator and loads nothing; test() after set_input on an
\* inference controller stores the four outputs and changes no parameter,
\* gradient or loss.
C8_Inference ==
  /\ [](( last = "__init__" /\ ~argFlag /\ ~MarkerExists)
          => (/\ err = "ok" /\ ctl = "infer" /\ built = Gens
              /\ weights = FreshWeights))
  /\ [][(last' = "test" /\ ctl = "infer" /\ inputEverSet) =>
          /\ err' = "ok"
          /\ ~IsNone(fake_A') /\ ~IsNone(fake_B')
          /\ ~IsNone(new_A') /\ ~IsNone(new_B')
          /\ weights' = weights /\ grad' = grad /\ loss' = loss]_vars

\* test() has run on an inference controller built beside generator files that
\* no marker covers
C8_Witness ==
  /\ last = "test" /\ err = "ok" /\ ctl = "infer" /\ built = Gens
  /\ ~MarkerExists /\ fileState["generator_a.pth"] = "ok"
  /\ ~IsNone(fake_A) /\ ~IsNone(fake_B)
  /\ weights = FreshWeights /\ loss = NoLoss

\* C9: backward_g sets loss_G = loss_genA + loss_genB + loss_cycle_A +
\* loss_cycle_B with the adversarial terms those of DisA(fake_B) and
\* DisB(fake_A) against the real label and the cycle terms the L1 distances
\* weighted by 10.
C9_LossG ==
  (last = "backward_g" /\ err \in {"ok", "RuntimeError"}) =>
    /\ loss.G = loss.genA + loss.genB + loss.cycle_A + loss.cycle_B
    /\ loss.genA = criterionGAN(Apply("DisA", fake_B, TRUE), TRUE)
    /\ loss.genB = criterionGAN(Apply("DisB", fake_A, TRUE), TRUE)
    /\ loss.cycle_A = criterionCycle(new_A, real_A) * 10
    /\ loss.cycle_B = criterionCycle(new_B, real_B) * 10

\* backward_g has run on inputs that make every term count
C9_Witness ==
  /\ last = "backward_g" /\ err = "ok"
  /\ loss.genA > 0 /\ loss.cycle_A > 0 /\ loss.cycle_B > 0
  /\ fake_B.val # real_B.val
  /\ loss.G = loss.genA + loss.genB + 20

\* C10: from an empty prefix, whenever the marker exists the four weight
\* files exist, so no construction fails on a missing weight file.
C10_MarkerImpliesWeights ==
  /\ MarkerExists => \A f \in WeightFiles : fileState[f] # "absent"
  /\ (last = "__init__" /\ err = "CheckpointLoadError")
       => \A f \in WeightFiles : fileState[f] # "absent"

\* a training controller has resumed from a checkpoint of trained weights
C10_Witness ==
  /\ last = "__init__" /\ argFlag /\ err = "ok" /\ MarkerExists
  /\ weights["GenA"] # FreshWeights["GenA"]
  /\ weights["DisA"] # FreshWeights["DisA"]

====
